---- MODULE Spec2Model ----
(***************************************************************************)
(* WhisperX audio transcriber: the transcription pipeline                  *)
(* (WhisperXTranscriber.transcribe_audio), its serverless variant          *)
(* (ServerlessTranscriber.transcribe_audio_fast), the command-line driver  *)
(* (process_single_file, process_batch) and the overlap-based speaker      *)
(* resolver (_assign_speaker_to_segment).                                  *)
(*                                                                         *)
(* Times are whole ticks; the external engines (ASR, alignment,            *)
(* diarization, the file system) are nondeterministic choices over small   *)
(* pools of outcomes.                                                      *)
(***************************************************************************)
EXTENDS Integers, Sequences, FiniteSets, TLC

(***************************************************************************)
(* Bounds of the model                                                     *)
(***************************************************************************)
\* largest time stamp of a segment or turn given to the resolver
MaxTime == 3
\* longest list of diarization turns given to the resolver
MaxTurns == 2
\* largest time stamp of a segment or turn inside a pipeline run
MaxPipeTime == 1
\* longest segment list an engine returns inside a pipeline run
MaxSegs == 2
\* longest list of diarization turns inside a pipeline run
MaxPipeTurns == 1
\* number of directory entries a batch directory may hold
NumPaths == 3
\* number of threads that call _get_or_load_model concurrently
NumThreads == 2
\* largest time stamp, in seconds, of a segment given to format_output
MaxFmtTime == 1
\* longest segment list given to format_output
MaxFmtSegs == 2
\* largest number of whole hours in a time given to format_timestamp
MaxHours == 100

None == "None"
DEFAULT_SPEAKER == "SPEAKER_00"

\* speaker labels the diarization engine may emit
SpeakerLabels == {"SPEAKER_00", "SPEAKER_01"}
\* language codes
Langs == {"en", "fr"}

(***************************************************************************)
(* transcriber.py: validate_audio_file                                     *)
(***************************************************************************)
\* str.lower() on one character
LowerChar(c) ==
    CASE c = "M" -> "m"
      [] c = "P" -> "p"
      [] c = "W" -> "w"
      [] c = "A" -> "a"
      [] c = "V" -> "v"
      [] c = "J" -> "j"
      [] c = "S" -> "s"
      [] c = "O" -> "o"
      [] c = "N" -> "n"
      [] c = "T" -> "t"
      [] c = "X" -> "x"
      [] c = "R" -> "r"
      [] OTHER -> c

\* a comparison of extensions that keeps the case
KeepCase(s) == s

\* str.lower() on a string, a string being a sequence of characters
Lower(s) == [i \in 1..Len(s) |-> LowerChar(s[i])]

SUPPORTED_FORMATS ==
    { <<".", "m", "p", "3">>, <<".", "w", "a", "v">>, <<".", "m", "4", "a">>,
      <<".", "f", "l", "a", "c">>, <<".", "o", "g", "g">>, <<".", "m", "p", "4">> }

\* the extensions (os.path.splitext(path)[1]) of the paths the model uses
ExtPool ==
    { <<".", "m", "p", "3">>, <<".", "M", "P", "3">>, <<".", "W", "a", "v">>,
      <<".", "t", "x", "t">>, <<".", "m", "p">>, << >> }

\* "ok", or the exception validate_audio_file raises
validate_audio_file(exists, ext) ==
    IF ~exists THEN "FileNotFoundError"
    ELSE IF Lower(ext) \notin SUPPORTED_FORMATS THEN "ValueError"
    ELSE "ok"

(***************************************************************************)
(* transcriber.py: _assign_speaker_to_segment                              *)
(***************************************************************************)
Max2(a, b) == IF a >= b THEN a ELSE b
Min2(a, b) == IF a <= b THEN a ELSE b

\* a resolver that counts the end points of the two ranges as overlapping
overlap_inclusive(segment_start, segment_end, spk_seg) ==
    Max2(0, Min2(segment_end, spk_seg.end) - Max2(segment_start, spk_seg.start) + 1)

\* overlap_duration of one turn with the segment (lines 232-234)
overlap_duration(segment_start, segment_end, spk_seg) ==
    Max2(0, Min2(segment_end, spk_seg.end) - Max2(segment_start, spk_seg.start))

\* a resolver in which a later turn of equal overlap replaces the earlier one
ImprovesOrTies(overlap, max_overlap) == overlap >= max_overlap

\* the comparison that lets a turn replace the best one seen so far (line 236)
Improves(overlap, max_overlap) == overlap > max_overlap

\* the loop over speaker_segments from position i, carrying (best_speaker, max_overlap)
RECURSIVE AssignLoop(_, _, _, _, _, _)
AssignLoop(segment_start, segment_end, speaker_segments, i, best_speaker, max_overlap) ==
    IF i > Len(speaker_segments) THEN best_speaker
    ELSE LET ov == overlap_duration(segment_start, segment_end, speaker_segments[i])
         IN  IF Improves(ov, max_overlap)
             THEN AssignLoop(segment_start, segment_end, speaker_segments, i + 1,
                             speaker_segments[i].speaker, ov)
             ELSE AssignLoop(segment_start, segment_end, speaker_segments, i + 1,
                             best_speaker, max_overlap)

\* a resolver that starts from the label of the first turn
AssignFromFirstTurn(segment_start, segment_end, speaker_segments) ==
    AssignLoop(segment_start, segment_end, speaker_segments, 1,
               IF speaker_segments = << >> THEN DEFAULT_SPEAKER
               ELSE speaker_segments[1].speaker, 0)

assign_speaker_to_segment(segment_start, segment_end, speaker_segments) ==
    AssignLoop(segment_start, segment_end, speaker_segments, 1, DEFAULT_SPEAKER, 0)

(***************************************************************************)
(* transcriber.py: format_timestamp, format_output and the formatters.     *)
(* A string is a sequence of tokens: single characters, and the words the  *)
(* formatters copy unchanged (speaker labels, texts, separators).          *)
(***************************************************************************)
\* the concatenation of a sequence of strings
RECURSIVE Flatten(_)
Flatten(ss) == IF ss = << >> THEN << >> ELSE Head(ss) \o Flatten(Tail(ss))

\* sep.join(lines)
RECURSIVE Join(_, _)
Join(sep, lines) ==
    IF lines = << >> THEN << >>
    ELSE IF Len(lines) = 1 THEN Head(lines)
    ELSE Head(lines) \o sep \o Join(sep, Tail(lines))

DigitChars == << "0", "1", "2", "3", "4", "5", "6", "7", "8", "9" >>

\* str(n) for n >= 0
RECURSIVE Str(_)
Str(n) ==
    IF n < 10 THEN << DigitChars[n + 1] >>
    ELSE Str(n \div 10) \o << DigitChars[(n % 10) + 1] >>

\* f"{n:0{width}d}": zero-padded to at least `width` digits
ZeroPad(n, width) ==
    LET d == Str(n)
    IN  IF Len(d) >= width THEN d
        ELSE [i \in 1..(width - Len(d)) |-> "0"] \o d

\* str.replace(old, new) for one-character old and new
Replace(str, old, new) ==
    [i \in 1..Len(str) |-> IF str[i] = old THEN new ELSE str[i]]

\* segment.get("text", "").strip()
Strip(text) == IF text = " hi" THEN "hi" ELSE text

\* the keys of `formatters`, in insertion order (lines 256-261)
FormatterNames ==
    << << "j", "s", "o", "n" >>, << "t", "x", "t" >>,
       << "s", "r", "t" >>, << "v", "t", "t" >> >>

\* a message that does not name the requested format
UnsupportedMessageAnonymous(format_type) ==
    << "Unsupported format. Supported: " >> \o Join(<< ",", " " >>, FormatterNames)

\* lines 265-268: f"Unsupported format: {format_type}. Supported: {supported}"
UnsupportedMessage(format_type) ==
    << "Unsupported format: " >> \o format_type \o << ". Supported: " >>
        \o Join(<< ",", " " >>, FormatterNames)

\* lines 272-275: json.dumps of the result, as the tokens of its segments
format_json(segments) ==
    << "{" >> \o Flatten([i \in 1..Len(segments) |->
                  Str(segments[i].start) \o << "," >> \o Str(segments[i].end)
                      \o << ",", segments[i].speaker, ",", segments[i].text, ";" >>])
        \o << "}" >>

(***************************************************************************)
(* Segments, turns and the outcomes of the external engines                *)
(***************************************************************************)
\* the distinct elements of a sequence
Range(s) == { s[i] : i \in 1..Len(s) }

\* all sequences over S of length at most n
SeqsUpTo(S, n) == UNION { [1..k -> S] : k \in 0..n }

\* a segment as the ASR or alignment engine returns it: no "speaker" key yet
PipeSegments ==
    { seg \in [start : 0..MaxPipeTime, end : 0..MaxPipeTime,
               text : {"hi"}, speaker : {None}] : seg.start <= seg.end }

\* segment lists result["segments"] of the ASR engine and of whisperx.align
\* (chronological: no segment starts before the one before it has ended)
SegmentLists ==
    { l \in SeqsUpTo(PipeSegments, MaxSegs) :
        \A i \in 1..(Len(l) - 1) : l[i].end <= l[i + 1].start }

\* a diarization turn: {"start", "end", "speaker"}
Turns(T) ==
    { [start |-> s, end |-> e, speaker |-> k] :
        s \in 0..T, e \in 0..T, k \in SpeakerLabels }

\* the turn lists diarization_result.itertracks yields inside a pipeline run
PipeTurnLists == SeqsUpTo({ t \in Turns(MaxPipeTime) : t.start <= t.end }, MaxPipeTurns)

\* segment.get("speaker", "SPEAKER_00")
GetSpeaker(seg) == IF seg.speaker = None THEN DEFAULT_SPEAKER ELSE seg.speaker

\* for segment in result.get("segments", []): segment["speaker"] = "SPEAKER_00"
FallbackLabel(seg) == [seg EXCEPT !.speaker = DEFAULT_SPEAKER]

FallbackSpeakers(segments) ==
    [i \in 1..Len(segments) |-> FallbackLabel(segments[i])]

\* a loop that collects the labelled segments into a new list
AssignSpeakersCollecting(segments, speaker_segments, n) ==
    [i \in 1..n |->
        [segments[i] EXCEPT !.speaker =
            assign_speaker_to_segment(segments[i].start, segments[i].end,
                                      speaker_segments)]]

\* the loop of lines 186-192 over the first n segments: the later ones are
\* not reached (n = Len(segments) when the loop runs to its end)
AssignSpeakers(segments, speaker_segments, n) ==
    [i \in 1..Len(segments) |->
        IF i <= n
        THEN [segments[i] EXCEPT !.speaker =
                 assign_speaker_to_segment(segments[i].start, segments[i].end,
                                           speaker_segments)]
        ELSE segments[i]]

\* len(set(seg.get("speaker", "SPEAKER_00") for seg in result.get("segments", [])))
SpeakersDetected(segments) ==
    Cardinality({ GetSpeaker(segments[i]) : i \in 1..Len(segments) })

\* a pipeline that ignores the override
ResolveDetectedOnly(override, detected_language) == detected_language

\* language_code = self.language or detected_language
ResolveLanguage(override, detected_language) ==
    IF override # None THEN override ELSE detected_language

\* detected_language = result.get("language", "en")
DetectedLanguage(asr_language) == IF asr_language = None THEN "en" ELSE asr_language

\* the language hint self.model.transcribe(audio, batch_size=16) is given
AsrLanguageHint(override) == None

\* the speaker-count hints self.diarize_model(temp_wav_path) is given, as
\* << min, max >>: the call of line 177 passes the path only
DiarizationHints(min, max) == << None, None >>

\* values of --min_speakers and --max_speakers, as written on the command line
SpeakerCounts == {"2", "3"}

(***************************************************************************)
(* transcriber.py: format_timestamp and format_output                      *)
(***************************************************************************)
\* the values int((td.total_seconds() % 1) * 1000) can take for a time of `ms`
\* milliseconds: the float product is the whole number or falls just below it;
\* it is exact for whole seconds and below one second
FractionMillis(ms) ==
    { ms % 1000 } \cup
        (IF ms >= 1000 /\ ms % 1000 > 0 THEN { (ms % 1000) - 1 } ELSE {})

\* lines 242-248 for a time of `ms` milliseconds, `milliseconds` being the value
\* of line 247
format_timestamp(ms, milliseconds) ==
    LET total_seconds == ms \div 1000
        hours == total_seconds \div 3600
        remainder == total_seconds % 3600
        minutes == remainder \div 60
        seconds == remainder % 60
    IN  ZeroPad(hours, 2) \o << ":" >> \o ZeroPad(minutes, 2) \o << ":" >>
            \o ZeroPad(seconds, 2) \o << "." >> \o ZeroPad(milliseconds, 3)

\* format_timestamp of a whole number of seconds
TimestampOfSeconds(sec) == format_timestamp(sec * 1000, 0)

\* f"{speaker}: {text}" of lines 298-301 and 312-314
SpeakerLine(segment) == << GetSpeaker(segment), ":", " ", Strip(segment.text) >>

\* lines 277-287
format_txt(segments) ==
    Join(<< "\n" >>,
         [i \in 1..Len(segments) |->
             << "[" >> \o TimestampOfSeconds(segments[i].start) \o << " --> " >>
                 \o TimestampOfSeconds(segments[i].end) \o << "]", " " >>
                 \o SpeakerLine(segments[i])])

\* an SRT formatter that numbers the blocks from 0
SrtBlocksFromZero(segments) ==
    [i \in 1..Len(segments) |->
        << Str(i - 1),
           Replace(TimestampOfSeconds(segments[i].start), ".", ",")
               \o << " --> " >>
               \o Replace(TimestampOfSeconds(segments[i].end), ".", ","),
           SpeakerLine(segments[i]),
           << >> >>]

\* lines 293-302: the four lines each segment adds, the first being str(i)
SrtBlocks(segments) ==
    [i \in 1..Len(segments) |->
        << Str(i),
           Replace(TimestampOfSeconds(segments[i].start), ".", ",")
               \o << " --> " >>
               \o Replace(TimestampOfSeconds(segments[i].end), ".", ","),
           SpeakerLine(segments[i]),
           << >> >>]

\* lines 289-303
format_srt(segments) == Join(<< "\n" >>, Flatten(SrtBlocks(segments)))

\* lines 309-314: the three lines each segment adds
VttBlocks(segments) ==
    [i \in 1..Len(segments) |->
        << TimestampOfSeconds(segments[i].start) \o << " --> " >>
               \o TimestampOfSeconds(segments[i].end),
           SpeakerLine(segments[i]),
           << >> >>]

\* lines 305-315
format_vtt(segments) ==
    Join(<< "\n" >>, << << "WEBVTT" >>, << >> >> \o Flatten(VttBlocks(segments)))

\* lines 250-270: the outcome of format_output: the exception raised and its
\* message, or the string returned
format_output(transcription_result, format_type) ==
    LET segments == transcription_result.segments
        format_lower == Lower(format_type)
    IN  IF format_lower \notin Range(FormatterNames)
        THEN [exc |-> "ValueError", message |-> UnsupportedMessage(format_type),
              value |-> << >>]
        ELSE [exc |-> None, message |-> << >>,
              value |-> CASE format_lower = FormatterNames[1] -> format_json(segments)
                          [] format_lower = FormatterNames[2] -> format_txt(segments)
                          [] format_lower = FormatterNames[3] -> format_srt(segments)
                          [] OTHER -> format_vtt(segments)]

\* times given to format_timestamp, in milliseconds: up to MaxHours hours, with
\* minutes, seconds and milliseconds at and between the ends of their ranges
TimestampInputs ==
    { ((h * 60 + m) * 60 + sec) * 1000 + msec :
        h \in 0..MaxHours, m \in {0, 1, 2, 59}, sec \in {0, 5, 59},
        msec \in {0, 1, 123, 500, 999} }

\* segments given to format_output: any times, labelled or not
FmtSegments ==
    { seg \in [start : 0..MaxFmtTime, end : 0..MaxFmtTime, text : {"hi", " hi"},
               speaker : {"SPEAKER_01", None}] : seg.start <= seg.end }

\* format names given to format_output
FormatNamePool ==
    { << "j", "s", "o", "n" >>, << "J", "S", "O", "N" >>, << "t", "x", "t" >>,
      << "T", "x", "t" >>, << "s", "r", "t" >>, << "S", "R", "T" >>,
      << "v", "t", "t" >>, << "V", "t", "T" >>, << "x", "m", "l" >>,
      << "s", "r" >>, << >> }

(***************************************************************************)
(* State                                                                   *)
(***************************************************************************)
VARIABLES
    \* environment and command line
    hf_token,          \* whether HF_TOKEN or TOKEN is set
    output_format,     \* args.output_format
    min_speakers,      \* args.min_speakers, or None
    max_speakers,      \* args.max_speakers, or None
    \* WhisperXTranscriber instance
    language,          \* self.language: the override, or None
    model,             \* self.model: None or "loaded"
    model_a,           \* self.model_a: None or the language it was loaded for
    last_alignment_language,  \* self._last_alignment_language
    diarize_model,     \* self.diarize_model: None or "loaded"
    \* one run of transcribe_audio / transcribe_audio_fast
    pc,                \* position of the run
    audio_path,        \* the file of the run: [path, exists, ext]
    result,            \* result["segments"]
    language_code,     \* the resolved language
    formatted_result,  \* << the returned dictionary >>, or << >> while there is none
    warnings,          \* kinds of warning logged in this run
    calls,             \* external capabilities invoked in this run
    asr_segments,      \* the segment list the ASR call returned in this run
    error,             \* the exception the run raised, or None
    \* driver (main.py)
    main_pc,           \* position of main()
    audio_files,       \* process_batch: the sorted list of files
    idx,               \* process_batch: index of the file being processed
    successful,        \* process_batch: tally
    failed,            \* process_batch: tally
    attempted,         \* files handed to process_single_file, in order
    errored,           \* files whose processing hit an error
    written,           \* writes done: <<path, format>>
    output_files,      \* the output directory: file name -> content
    \* serverless_transcriber.py
    model_cache,       \* ServerlessTranscriber._model_cache: key -> loaded model
    transcriber_instance,  \* _transcriber_instance: its model_size, or None
    \* one call of _assign_speaker_to_segment
    segment_start,
    segment_end,
    speaker_segments,
    assigned_speaker,  \* the label returned, or None before the call
    \* threads inside ServerlessTranscriber._get_or_load_model
    th_pc,             \* position of each thread
    th_type,           \* model_type each thread asks for
    th_loaded,         \* the model the loader returned to the thread, or None
    th_model,          \* the model the call returned to the thread, or None
    loader_runs,       \* how often the loader of each model type has run
    \* one call of a function of the library: its arguments and its outcome
    call_args,
    call_result

vars == << hf_token, output_format, min_speakers, max_speakers, language, model, model_a,
           last_alignment_language, diarize_model, pc, audio_path, result,
           language_code, formatted_result, warnings, calls, asr_segments,
           error, main_pc, audio_files, idx, successful, failed, attempted, errored,
           written, output_files, model_cache, transcriber_instance, segment_start,
           segment_end, speaker_segments, assigned_speaker, th_pc, th_type,
           th_loaded, th_model, loader_runs, call_args, call_result >>

envVars == << hf_token, output_format, min_speakers, max_speakers, language >>
instVars == << model, model_a, last_alignment_language, diarize_model >>
runVars == << pc, audio_path, result, language_code, formatted_result,
              warnings, calls, asr_segments, error >>
mainVars == << main_pc, audio_files, idx, successful, failed, attempted,
               errored, written, output_files >>
slVars == << model_cache, transcriber_instance >>
assignVars == << segment_start, segment_end, speaker_segments, assigned_speaker >>
threadVars == << th_pc, th_type, th_loaded, th_model, loader_runs >>
callVars == << call_args, call_result >>

\* nothing invoked yet: the counts of the external calls of a run, the language
\* hint given to the ASR call, and how the two optional stages ended
NoCalls == [load_model |-> 0, load_audio |-> 0, asr |-> 0, load_align |-> 0,
            align |-> 0, load_diar |-> 0, diar |-> 0, asr_hint |-> None,
            asr_outcome |-> None, detected |-> None, model_used |-> None,
            align_loaded_for |-> None, align_outcome |-> None,
            diar_hints |-> << >>,
            diar_outcome |-> None, temp_wav |-> "none"]

NoFile == [path |-> 0, exists |-> FALSE, ext |-> << >>]

(***************************************************************************)
(* transcriber.py: WhisperXTranscriber.transcribe_audio, stage by stage    *)
(***************************************************************************)
\* a pipeline that goes from transcription straight to diarization
SkipAlignment(stage) ==
    CASE stage = "validate" -> "transcribe"
      [] stage = "transcribe" -> "diarize"
      [] stage = "align" -> "diarize"
      [] stage = "diarize" -> "assemble"
      [] OTHER -> "returned"

\* lines 132-220: the stage transcribe_audio goes on to when `stage` has not
\* raised: the statements of the function body in their order
NextStage(stage) ==
    CASE stage = "validate" -> "transcribe"
      [] stage = "transcribe" -> "align"
      [] stage = "align" -> "diarize"
      [] stage = "diarize" -> "assemble"
      [] OTHER -> "returned"

\* entry of transcribe_audio(audio_path) on a fresh set of locals
BeginRun(file, first) ==
    /\ pc' = first
    /\ audio_path' = file
    /\ result' = << >>
    /\ language_code' = None
    /\ formatted_result' = << >>
    /\ warnings' = {}
    /\ calls' = NoCalls
    /\ asr_segments' = << >>
    /\ error' = None

\* the locals of a run are gone once process_single_file has returned
EndRun ==
    /\ pc' = "idle"
    /\ audio_path' = NoFile
    /\ result' = << >>
    /\ language_code' = None
    /\ formatted_result' = << >>
    /\ warnings' = {}
    /\ calls' = NoCalls
    /\ asr_segments' = << >>
    /\ error' = None

\* an exception that is logged and not raised again: the run goes on
LogAndContinue(exc) ==
    /\ pc' = "align"
    /\ error' = exc

\* raise: the run ends without a result
Raise(exc) ==
    /\ pc' = "raised"
    /\ error' = exc

\* line 132: self.validate_audio_file(audio_path)
Validate ==
    /\ pc = "validate"
    /\ LET v == validate_audio_file(audio_path.exists, audio_path.ext)
       IN  IF v = "ok"
           THEN pc' = NextStage(pc) /\ error' = error
           ELSE Raise(v)
    /\ UNCHANGED << assignVars, threadVars, callVars, slVars, envVars, instVars, mainVars, audio_path, result,
                    language_code, formatted_result, warnings, calls,
                    asr_segments >>

\* lines 133-148: self._load_models(), then load_audio and the ASR call
Transcribe ==
    /\ pc = "transcribe"
    /\ \E out \in {"load_model_fail", "load_audio_fail", "asr_fail", "ok"} :
         /\ out = "load_model_fail" => model = None
         /\ model' = IF out = "load_model_fail" THEN None ELSE "loaded"
         /\ LET loads == IF model = None THEN 1 ELSE 0
                c1 == [calls EXCEPT !.load_model = @ + loads, !.asr_outcome = out]
                c2 == [c1 EXCEPT !.load_audio = @ + 1]
                c3 == [c2 EXCEPT !.asr = @ + 1, !.asr_hint = AsrLanguageHint(language)]
            IN  CASE out = "load_model_fail" ->
                       /\ Raise("RuntimeError: Failed to load Whisper model")
                       /\ calls' = c1
                       /\ UNCHANGED << result, asr_segments, language_code >>
                  [] out = "load_audio_fail" ->
                       /\ Raise("RuntimeError: Transcription failed")
                       /\ calls' = c2
                       /\ UNCHANGED << result, asr_segments, language_code >>
                  [] out = "asr_fail" ->
                       /\ Raise("RuntimeError: Transcription failed")
                       /\ calls' = c3
                       /\ UNCHANGED << result, asr_segments, language_code >>
                  [] out = "ok" ->
                       \E segs \in SegmentLists, lang \in Langs \cup {None} :
                         /\ result' = segs
                         /\ asr_segments' = segs
                         /\ language_code' =
                              ResolveLanguage(language, DetectedLanguage(lang))
                         /\ calls' = [c3 EXCEPT !.detected = DetectedLanguage(lang)]
                         /\ pc' = NextStage(pc)
                         /\ error' = error
    /\ UNCHANGED << assignVars, threadVars, callVars, slVars, envVars, model_a, last_alignment_language, diarize_model,
                    mainVars, audio_path, formatted_result, warnings >>

\* lines 76-90: _load_alignment_model(language_code); load_ok is whether
\* whisperx.load_align_model succeeds if it is called
LoadAlignmentModelKeepStale(cur_model_a, last_lang, code, load_ok) ==
    IF cur_model_a = None \/ last_lang # code
    THEN IF load_ok
         THEN [model_a |-> code, last |-> code, called |-> 1, warned |-> FALSE]
         ELSE [model_a |-> cur_model_a, last |-> last_lang, called |-> 1,
               warned |-> TRUE]
    ELSE [model_a |-> cur_model_a, last |-> last_lang, called |-> 0, warned |-> FALSE]

LoadAlignmentModel(cur_model_a, last_lang, code, load_ok) ==
    IF cur_model_a = None \/ last_lang # code
    THEN IF load_ok
         THEN [model_a |-> code, last |-> code, called |-> 1, warned |-> FALSE]
         ELSE [model_a |-> None, last |-> last_lang, called |-> 1, warned |-> TRUE]
    ELSE [model_a |-> cur_model_a, last |-> last_lang, called |-> 0, warned |-> FALSE]

\* an alignment stage that loses the segments when it does not succeed
AfterAlignDropSegments(outcome, segments, aligned) ==
    IF outcome = "aligned" THEN aligned ELSE << >>

\* the segment list the pipeline carries on with when the alignment stage
\* ends as `outcome`: lines 153-165
AfterAlign(outcome, segments, aligned) ==
    IF outcome = "aligned" THEN aligned ELSE segments

\* lines 150-165: the alignment stage
Align ==
    /\ pc = "align"
    /\ \E load_ok \in BOOLEAN, align_ok \in BOOLEAN :
       \E aligned \in IF align_ok THEN SegmentLists ELSE {result} :
         LET ld == LoadAlignmentModel(model_a, last_alignment_language,
                                      language_code, load_ok)
             outcome == IF ld.model_a = None THEN "skipped"
                        ELSE IF align_ok THEN "aligned" ELSE "failed"
         IN  /\ model_a' = ld.model_a
             /\ last_alignment_language' = ld.last
             /\ result' = AfterAlign(outcome, result, aligned)
             /\ warnings' = warnings
                  \cup (IF ld.warned THEN {"Failed to load alignment model"} ELSE {})
                  \cup (IF outcome = "skipped" THEN {"Skipping alignment"} ELSE {})
                  \cup (IF outcome = "failed" THEN {"Alignment failed"} ELSE {})
             /\ calls' = [calls EXCEPT !.load_align = @ + ld.called,
                                       !.align = @ + (IF ld.model_a = None THEN 0 ELSE 1),
                                       !.align_loaded_for = ld.model_a,
                                       !.align_outcome = outcome]
    /\ pc' = NextStage(pc)
    /\ UNCHANGED << assignVars, threadVars, callVars, slVars, envVars, model, diarize_model, mainVars, audio_path,
                    language_code, formatted_result, asr_segments, error >>

\* the ways the diarization stage of transcribe_audio can end
DiarOutcomes == {"no_token", "load_fail", "load_none", "write_fail",
                 "infer_fail", "assign_fail", "ok"}

\* lines 92-113: self.diarize_model after _load_diarization_model, by outcome
LoadDiarizationModel(cur, outcome) ==
    IF cur # None THEN cur
    ELSE IF outcome \in {"no_token", "load_fail", "load_none"} THEN None
    ELSE "loaded"

\* lines 171-178: the temporary .wav file of the stage when the stage has
\* ended. NamedTemporaryFile(delete=False) creates it after the model load
\* (169) and os.unlink (178) is reached only when the model call has returned.
TempWav(outcome) ==
    CASE outcome \in {"no_token", "load_fail"} -> "none"
      [] outcome \in {"load_none", "write_fail", "infer_fail"} -> "exists"
      [] OTHER -> "deleted"

\* an except branch that labels only the segments not labelled yet
DiarizeFallbackUnlabelled(segments) ==
    [i \in 1..Len(segments) |->
        IF segments[i].speaker = None THEN FallbackLabel(segments[i])
        ELSE segments[i]]

\* lines 194-198: the except branch of the diarization stage
DiarizeFallback(segments) == FallbackSpeakers(segments)

\* lines 167-198: the segments after the diarization stage. The loop of lines
\* 186-192 labels the segments in place, so an exception raised at segment n + 1
\* finds the first n already labelled when the except branch runs.
AfterDiarize(outcome, segments, turns, n) ==
    CASE outcome = "ok" -> AssignSpeakers(segments, turns, Len(segments))
      [] outcome = "assign_fail" ->
            DiarizeFallback(AssignSpeakers(segments, turns, n))
      [] OTHER -> DiarizeFallback(segments)

\* lines 167-198: the diarization stage
Diarize ==
    /\ pc = "diarize"
    /\ \E outcome \in DiarOutcomes :
       \E turns \in IF outcome \in {"ok", "assign_fail"}
                    THEN PipeTurnLists ELSE {<< >>} :
       \E n \in IF outcome = "assign_fail" THEN 0..(Len(result) - 1) ELSE {0} :
         \* the token is read only when the model is not loaded yet (lines 93-100)
         /\ outcome = "no_token" => diarize_model = None /\ ~hf_token
         /\ outcome \in {"load_fail", "load_none"} => diarize_model = None /\ hf_token
         /\ outcome \notin {"no_token", "load_fail", "load_none"} =>
                diarize_model # None \/ hf_token
         /\ diarize_model' = LoadDiarizationModel(diarize_model, outcome)
         /\ result' = AfterDiarize(outcome, result, turns, n)
         /\ warnings' = warnings \cup
              (IF outcome = "ok" THEN {} ELSE {"Speaker diarization failed"})
         /\ calls' = [calls EXCEPT
              !.load_diar = @ + (IF diarize_model = None /\ outcome # "no_token"
                                 THEN 1 ELSE 0),
              !.diar = @ + (IF outcome \in {"infer_fail", "assign_fail", "ok"}
                            THEN 1 ELSE 0),
              !.diar_hints = IF outcome \in {"infer_fail", "assign_fail", "ok"}
                             THEN DiarizationHints(min_speakers, max_speakers)
                             ELSE << >>,
              !.diar_outcome = outcome,
              !.temp_wav = TempWav(outcome)]
    /\ pc' = NextStage(pc)
    /\ UNCHANGED << assignVars, threadVars, callVars, slVars, envVars, model, model_a, last_alignment_language, mainVars,
                    audio_path, language_code, formatted_result, asr_segments,
                    error >>

\* lines 200-214: the returned dictionary (duration and model name left out)
Assembled(path, code, segments) ==
    [metadata |-> [audio_file |-> path,
                   language |-> code,
                   speakers_detected |-> SpeakersDetected(segments)],
     segments |-> segments]

\* lines 200-220: build and return formatted_result
Assemble ==
    /\ pc = "assemble"
    /\ formatted_result' = << Assembled(audio_path.path, language_code, result) >>
    /\ pc' = NextStage(pc)
    /\ UNCHANGED << assignVars, threadVars, callVars, slVars, envVars, instVars, mainVars, audio_path, result,
                    language_code, warnings, calls, asr_segments, error >>

(***************************************************************************)
(* main.py: find_audio_files, process_single_file, process_batch           *)
(***************************************************************************)
\* the suffix of directory entry p (entry 2 is not an audio file)
PathExt(p) ==
    CASE p = 2 -> <<".", "t", "x", "t">>
      [] p = 3 -> <<".", "W", "a", "v">>
      [] p = 4 -> <<".", "M", "P", "3">>
      [] OTHER -> <<".", "m", "p", "3">>

\* the orders in which os.walk may yield the entries of a directory
WalkOrders(dir) ==
    { w \in [1..Cardinality(dir) -> dir] :
        \A i, j \in 1..Cardinality(dir) : i # j => w[i] # w[j] }

\* s with x inserted before the first element greater than x
RECURSIVE Insert(_, _)
Insert(x, s) ==
    IF s = << >> THEN << x >>
    ELSE IF x <= Head(s) THEN << x >> \o s
    ELSE << Head(s) >> \o Insert(x, Tail(s))

\* the files left in the order os.walk yields them
WalkOrder(s) == s

\* sorted(audio_files): paths are compared by their number
RECURSIVE Sorted(_)
Sorted(s) == IF s = << >> THEN << >> ELSE Insert(Head(s), Sorted(Tail(s)))

\* lines 91-94: the entries with a supported suffix, in walk order
RECURSIVE AudioEntries(_)
AudioEntries(walk) ==
    IF walk = << >> THEN << >>
    ELSE (IF Lower(PathExt(Head(walk))) \in SUPPORTED_FORMATS
          THEN << Head(walk) >> ELSE << >>) \o AudioEntries(Tail(walk))

\* lines 87-96
find_audio_files(walk) == Sorted(AudioEntries(walk))

\* lines 62-66: the formats process_single_file writes
Formats(fmt) ==
    IF fmt = "all" THEN << "txt", "json", "srt", "vtt" >> ELSE << fmt >>

\* Path(audio_path).stem of directory entry p: entries 1 and 3 are a.mp3 and
\* sub/a.Wav, the others have a stem of their own
PathStem(p) ==
    CASE p = 1 -> "a"
      [] p = 3 -> "a"
      [] p = 2 -> "b"
      [] OTHER -> "c"

\* lines 40-43: the file name inside the output directory
get_output_filename(path, format_type) ==
    << PathStem(path), IF format_type = "txt" THEN "txt" ELSE format_type >>

\* line 47: open(output_path, "w") creates the file empty, or empties the file
\* of that name (content << >>: nothing, or not all, of a rendering)
open_for_writing(files, output_path) ==
    { f \in files : f.name # output_path }
        \cup { [name |-> output_path, content |-> << >>] }

\* lines 46-48: the file is opened for writing and the content written to it
save_output(files, content, output_path) ==
    { f \in open_for_writing(files, output_path) : f.name # output_path }
        \cup { [name |-> output_path, content |-> << content >>] }

\* lines 68-71, a round of the loop that raises: format_output, or open (47),
\* raises and the file is not touched ("before_open"), or f.write, or the
\* flush when the file is closed, raises after open has emptied or created it
SaveFailures == {"before_open", "after_open"}

\* lines 46-48: the output directory after a save_output that raised
save_output_raised(files, output_path, failure) ==
    IF failure = "after_open" THEN open_for_writing(files, output_path)
    ELSE files

\* lines 68-71, the first k rounds of the loop: the rendering of the result of
\* `path` in each format is saved under its output file name
RECURSIVE SaveAll(_, _, _, _)
SaveAll(files, path, formats, k) ==
    IF k = 0 THEN files
    ELSE save_output(SaveAll(files, path, formats, k - 1),
                     [of |-> path, format |-> formats[k]],
                     get_output_filename(path, formats[k]))

\* lines 81-84: whether an exception raised inside process_single_file reaches
\* its caller (the handler catches Exception and returns)
Propagates(exc) == FALSE

\* main(), lines 299-300: process_single_file(args.audio, ...)
StartAudio ==
    /\ main_pc = "start"
    /\ main_pc' = "audio"
    /\ \E ex \in BOOLEAN, ext \in ExtPool :
         BeginRun([path |-> 1, exists |-> ex, ext |-> ext], "validate")
    /\ attempted' = << 1 >>
    /\ UNCHANGED << assignVars, threadVars, callVars, slVars, envVars, instVars, audio_files, idx, successful, failed,
                    errored, written, output_files >>

\* process_batch, lines 102-117
StartBatch ==
    /\ main_pc = "start"
    /\ \E dir \in SUBSET (1..NumPaths) : \E walk \in WalkOrders(dir) :
         /\ audio_files' = find_audio_files(walk)
         /\ main_pc' = IF audio_files' = << >> THEN "batch_done" ELSE "batch"
    /\ idx' = 1
    /\ successful' = 0
    /\ failed' = 0
    /\ UNCHANGED << assignVars, threadVars, callVars, slVars, envVars, instVars, runVars, attempted, errored, written, output_files >>

\* process_batch, lines 119-121: the loop hands the next file to
\* process_single_file, which calls transcribe_audio (lines 55-59)
BatchIter ==
    /\ main_pc = "batch"
    /\ pc = "idle"
    /\ idx <= Len(audio_files)
    /\ \E ex \in BOOLEAN :
         BeginRun([path |-> audio_files[idx], exists |-> ex,
                   ext |-> PathExt(audio_files[idx])], "validate")
    /\ attempted' = Append(attempted, audio_files[idx])
    /\ UNCHANGED << assignVars, threadVars, callVars, slVars, envVars, instVars, main_pc, audio_files, idx, successful,
                    failed, errored, written, output_files >>

\* process_batch, lines 120-127 and 129-131, and main(), line 300: what follows
\* the return of process_single_file. exc is the exception it let through, or
\* None. The locals of the run are gone.
AfterFile(exc) ==
    /\ IF main_pc = "batch"
       THEN /\ IF exc # None
               THEN failed' = failed + 1 /\ successful' = successful
               ELSE successful' = successful + 1 /\ failed' = failed
            /\ idx' = idx + 1
            /\ main_pc' = main_pc
       ELSE /\ main_pc' = "audio_done"
            /\ UNCHANGED << idx, successful, failed >>
    /\ EndRun

\* process_single_file, lines 61-79: the result is rendered and saved format by
\* format; creating the directory or the k+1-th write may raise (lines 81-84)
SaveOutputs ==
    /\ main_pc \in {"audio", "batch"}
    /\ pc = "returned"
    /\ LET formats == Formats(output_format)
       IN  \E k \in 0..Len(formats) :
           \E failure \in IF k < Len(formats) THEN SaveFailures ELSE {"none"} :
             LET exc == IF k < Len(formats) THEN "OSError" ELSE None
                 saved == SaveAll(output_files, audio_path.path, formats, k)
             IN  /\ written' = written \cup
                      { << audio_path.path, formats[i] >> : i \in 1..k }
                 /\ output_files' =
                      IF k < Len(formats)
                      THEN save_output_raised(saved,
                               get_output_filename(audio_path.path, formats[k + 1]),
                               failure)
                      ELSE saved
                 /\ errored' = IF exc # None
                               THEN errored \cup { << audio_path.path, exc >> }
                               ELSE errored
                 /\ AfterFile(IF exc # None /\ Propagates(exc) THEN exc ELSE None)
    /\ UNCHANGED << assignVars, threadVars, callVars, slVars, envVars, instVars, audio_files, attempted >>

\* process_single_file, lines 81-84: transcribe_audio raised
HandleError ==
    /\ main_pc \in {"audio", "batch"}
    /\ pc = "raised"
    /\ errored' = errored \cup { << audio_path.path, error >> }
    /\ AfterFile(IF Propagates(error) THEN error ELSE None)
    /\ UNCHANGED << assignVars, threadVars, callVars, slVars, envVars, instVars, audio_files, attempted, written, output_files >>

\* process_batch, lines 129-131: the loop is over and the tally is printed
BatchDone ==
    /\ main_pc = "batch"
    /\ pc = "idle"
    /\ idx > Len(audio_files)
    /\ main_pc' = "batch_done"
    /\ UNCHANGED << assignVars, threadVars, callVars, slVars, envVars, instVars, runVars, audio_files, idx, successful,
                    failed, attempted, errored, written, output_files >>

(***************************************************************************)
(* main.py: validate_arguments                                             *)
(***************************************************************************)
SUPPORTED_MODELS == {"tiny", "base", "small", "medium", "large-v2", "large-v3"}
SUPPORTED_OUTPUT_FORMATS == {"txt", "json", "srt", "vtt", "all"}
SUPPORTED_DEVICES == {"cpu", "cuda"}

\* an argument counts as given as soon as it is not None
IsNotNone(x) == x # None

\* the truth value of an optional string: None and "" are false
Truthy(x) == x \notin {None, ""}

\* the argument sets given to validate_arguments; audio_exists and batch_isdir
\* are what os.path.exists(args.audio) and os.path.isdir(args.batch) answer
ArgumentSets ==
    [audio : {None, "", "a.mp3"}, audio_exists : BOOLEAN,
     batch : {None, "", "dir"}, batch_isdir : BOOLEAN,
     model : {"base", "large-v3", "BASE", "huge"},
     output_format : {"all", "json", "JSON", "xml"},
     device : {None, "cpu", "cuda", "tpu"}]

\* lines 134-160: the exception validate_arguments raises, or None, with the
\* arguments it has read by then
validate_arguments(args) ==
    IF ~Truthy(args.audio) /\ ~Truthy(args.batch)
    THEN [exc |-> "ValueError",
          message |-> "Either --audio or --batch must be specified",
          examined |-> {"audio", "batch"}]
    ELSE IF Truthy(args.audio) /\ Truthy(args.batch)
    THEN [exc |-> "ValueError",
          message |-> "Cannot specify both --audio and --batch",
          examined |-> {"audio", "batch"}]
    ELSE IF Truthy(args.audio) /\ ~args.audio_exists
    THEN [exc |-> "FileNotFoundError", message |-> "Audio file not found",
          examined |-> {"audio", "batch", "audio_exists"}]
    ELSE IF Truthy(args.batch) /\ ~args.batch_isdir
    THEN [exc |-> "FileNotFoundError", message |-> "Batch directory not found",
          examined |-> {"audio", "batch", "batch_isdir"}]
    ELSE LET seen == {"audio", "batch"} \cup
                         (IF Truthy(args.audio) THEN {"audio_exists"}
                          ELSE {"batch_isdir"})
         IN  IF args.model \notin SUPPORTED_MODELS
             THEN [exc |-> "ValueError", message |-> "Invalid model",
                   examined |-> seen \cup {"model"}]
             ELSE IF args.output_format \notin SUPPORTED_OUTPUT_FORMATS
             THEN [exc |-> "ValueError", message |-> "Invalid output format",
                   examined |-> seen \cup {"model", "output_format"}]
             ELSE IF args.device # None /\ args.device \notin SUPPORTED_DEVICES
             THEN [exc |-> "ValueError", message |-> "Invalid device",
                   examined |-> seen \cup {"model", "output_format", "device"}]
             ELSE [exc |-> None, message |-> None,
                   examined |-> seen \cup {"model", "output_format", "device"}]

(***************************************************************************)
(* serverless_transcriber.py: ServerlessTranscriber, get_transcriber       *)
(***************************************************************************)
\* the model sizes the serverless entry point is asked for
ModelSizes == {"base", "small"}

\* line 39: cache_key = f"{model_type}_{hash((args, tuple(kwargs.items())))}"
CacheKey(model_type, args) == << model_type >> \o args

\* lines 43-55: what the loader of model_type loads, given self.model_size
Loaded(model_type, args, model_size) ==
    CASE model_type = "whisper" -> [type |-> "whisper", config |-> model_size]
      [] model_type = "alignment" -> [type |-> "alignment", config |-> args[1]]
      [] OTHER -> [type |-> "diarization", config |-> None]

\* line 41: cache_key in self._model_cache (the cache is a set of entries)
IsCached(cache, key) == \E e \in cache : e.key = key

\* line 59: self._model_cache[cache_key]
CacheGet(cache, key) == (CHOOSE e \in cache : e.key = key).value

\* lines 37-59: the cache after _get_or_load_model when the loader does not raise
CacheAfterLoad(cache, model_type, args, model_size) ==
    IF IsCached(cache, CacheKey(model_type, args)) THEN cache
    ELSE cache \cup { [key |-> CacheKey(model_type, args),
                       value |-> Loaded(model_type, args, model_size)] }

\* lines 122-127
get_transcriber(instance, model_size) ==
    IF instance = None \/ instance # model_size THEN model_size ELSE instance

\* a serverless process: get_transcriber and transcribe_audio_fast are invoked
\* again and again within one process lifetime
GetTranscriber ==
    /\ main_pc = "serverless"
    /\ pc = "idle"
    /\ \E size \in ModelSizes :
         transcriber_instance' = get_transcriber(transcriber_instance, size)
    /\ UNCHANGED << assignVars, threadVars, callVars, model_cache, envVars, instVars, runVars, mainVars >>

\* entry of transcribe_audio_fast(audio_path)
FastBegin ==
    /\ main_pc = "serverless"
    /\ pc = "idle"
    /\ transcriber_instance # None
    /\ \E ex \in BOOLEAN :
         BeginRun([path |-> 1, exists |-> ex, ext |-> <<".", "m", "p", "3">>],
                  "fast_transcribe")
    /\ UNCHANGED << assignVars, threadVars, callVars, slVars, envVars, instVars, mainVars >>

\* lines 65-70: load_audio, the Whisper model from the cache, the ASR call
FastTranscribe ==
    /\ pc = "fast_transcribe"
    /\ \E out \in {"load_audio_fail", "load_model_fail", "asr_fail", "ok"} :
         LET key == CacheKey("whisper", << >>)
             c1 == [calls EXCEPT !.load_audio = 1, !.asr_outcome = out]
             c2 == [c1 EXCEPT !.load_model =
                                 IF IsCached(model_cache, key) THEN 0 ELSE 1]
             loaded == CacheAfterLoad(model_cache, "whisper", << >>,
                                      transcriber_instance)
             \* line 68: the model _get_or_load_model("whisper") returns
             c3 == [c2 EXCEPT !.asr = 1,
                              !.model_used = CacheGet(loaded, key).config]
         IN  /\ ~audio_path.exists => out = "load_audio_fail"
             /\ out = "load_model_fail" => ~IsCached(model_cache, key)
             /\ CASE out = "load_audio_fail" ->
                       /\ Raise("load_audio")
                       /\ calls' = c1
                       /\ UNCHANGED << model_cache, result, asr_segments,
                                       language_code >>
                  [] out = "load_model_fail" ->
                       /\ Raise("load_model")
                       /\ calls' = c2
                       /\ UNCHANGED << model_cache, result, asr_segments,
                                       language_code >>
                  [] out = "asr_fail" ->
                       /\ Raise("transcribe")
                       /\ calls' = c3
                       /\ model_cache' = loaded
                       /\ UNCHANGED << result, asr_segments, language_code >>
                  [] out = "ok" ->
                       \E segs \in SegmentLists, lang \in Langs \cup {None} :
                         /\ result' = segs
                         /\ asr_segments' = segs
                         /\ language_code' = DetectedLanguage(lang)
                         /\ calls' = [c3 EXCEPT !.detected = DetectedLanguage(lang)]
                         /\ model_cache' = loaded
                         /\ pc' = "fast_align"
                         /\ error' = error
    /\ UNCHANGED << assignVars, threadVars, callVars, transcriber_instance, envVars, instVars,
                    mainVars, audio_path, formatted_result, warnings >>

\* lines 72-80: alignment; any exception is logged and the stage skipped
FastAlign ==
    /\ pc = "fast_align"
    /\ \E load_ok \in BOOLEAN, align_ok \in BOOLEAN :
       \E aligned \in IF align_ok THEN SegmentLists ELSE {result} :
         LET key == CacheKey("alignment", << language_code >>)
             cached == IsCached(model_cache, key)
             have == cached \/ load_ok
             outcome == IF ~have THEN "skipped"
                        ELSE IF align_ok THEN "aligned" ELSE "failed"
             after == IF have
                      THEN CacheAfterLoad(model_cache, "alignment",
                                          << language_code >>, transcriber_instance)
                      ELSE model_cache
         IN  /\ model_cache' = after
             /\ result' = AfterAlign(outcome, result, aligned)
             /\ warnings' = warnings \cup
                  (IF outcome = "aligned" THEN {} ELSE {"Skipping alignment"})
             /\ calls' = [calls EXCEPT !.load_align = IF cached THEN 0 ELSE 1,
                                       !.align = IF have THEN 1 ELSE 0,
                                       !.align_loaded_for =
                                           IF have THEN CacheGet(after, key).config
                                           ELSE None,
                                       !.align_outcome = outcome]
    /\ pc' = "fast_diarize"
    /\ UNCHANGED << assignVars, threadVars, callVars, transcriber_instance, envVars, instVars,
                    mainVars, audio_path, language_code, formatted_result,
                    asr_segments, error >>

\* whisperx.assign_word_speakers(diarize_segments, result): every segment is
\* given a speaker of the diarization, or is left without a "speaker" key
WordSpeakers(segments, labels) ==
    [i \in 1..Len(segments) |-> [segments[i] EXCEPT !.speaker = labels[i]]]

\* lines 82-95: the segments after the diarization stage
FastAfterDiarize(outcome, segments, labels) ==
    IF outcome = "ok" THEN WordSpeakers(segments, labels)
    ELSE FallbackSpeakers(segments)

\* lines 82-95: diarization, skipped when no token is set
FastDiarize ==
    /\ pc = "fast_diarize"
    /\ \E outcome \in {"no_token", "load_fail", "infer_fail", "assign_fail", "ok"} :
       \E labels \in IF outcome = "ok"
                     THEN [1..Len(result) -> SpeakerLabels \cup {None}]
                     ELSE {[i \in 1..Len(result) |-> None]} :
         LET key == CacheKey("diarization", << >>)
         IN  /\ outcome = "no_token" <=> ~hf_token
             /\ outcome = "load_fail" => ~IsCached(model_cache, key)
             /\ model_cache' =
                  IF outcome \in {"no_token", "load_fail"} THEN model_cache
                  ELSE CacheAfterLoad(model_cache, "diarization", << >>,
                                      transcriber_instance)
             /\ result' = FastAfterDiarize(outcome, result, labels)
             /\ warnings' = warnings \cup
                  (IF outcome \in {"ok", "no_token"} THEN {}
                   ELSE {"Skipping diarization"})
             /\ calls' = [calls EXCEPT
                  !.load_diar = IF outcome = "no_token" \/ IsCached(model_cache, key)
                                THEN 0 ELSE 1,
                  !.diar = IF outcome \in {"infer_fail", "assign_fail", "ok"}
                           THEN 1 ELSE 0,
                  !.diar_outcome = outcome]
    /\ pc' = "fast_assemble"
    /\ UNCHANGED << assignVars, threadVars, callVars, transcriber_instance, envVars, instVars,
                    mainVars, audio_path, language_code, formatted_result,
                    asr_segments, error >>

\* lines 98-111: the returned dictionary (duration left out)
FastAssembled(code, model_size, segments) ==
    [metadata |-> [language |-> code,
                   model |-> model_size,
                   speakers_detected |-> SpeakersDetected(segments)],
     segments |-> segments]

FastAssemble ==
    /\ pc = "fast_assemble"
    /\ formatted_result' =
         << FastAssembled(language_code, transcriber_instance, result) >>
    /\ pc' = "returned"
    /\ UNCHANGED << assignVars, threadVars, callVars, slVars, envVars, instVars, mainVars, audio_path,
                    result, language_code, warnings, calls, asr_segments, error >>

\* the invocation is over (returned, or raised at lines 113-115)
FastEnd ==
    /\ main_pc = "serverless"
    /\ pc \in {"returned", "raised"}
    /\ EndRun
    /\ UNCHANGED << assignVars, threadVars, callVars, slVars, envVars, instVars, mainVars >>

(***************************************************************************)
(* serverless_transcriber.py: _get_or_load_model called by several threads *)
(* of one process. The method takes no lock: the membership test, the      *)
(* loader call, the store and the final read are separate steps.           *)
(***************************************************************************)
Threads == 1..NumThreads

\* the calls the threads make: _get_or_load_model("whisper"),
\* _get_or_load_model("alignment", "en"), _get_or_load_model("diarization")
ThreadModelTypes == {"whisper", "alignment", "diarization"}

ThreadArgs(model_type) == IF model_type = "alignment" THEN << "en" >> ELSE << >>

ThreadKey(t) == CacheKey(th_type[t], ThreadArgs(th_type[t]))

\* self._model_cache[cache_key] = value
CachePut(cache, key, value) ==
    { e \in cache : e.key # key } \cup { [key |-> key, value |-> value] }

\* no thread is inside _get_or_load_model
ThreadsIdle ==
    /\ th_pc = [t \in Threads |-> "idle"]
    /\ th_type = [t \in Threads |-> None]
    /\ th_loaded = [t \in Threads |-> None]
    /\ th_model = [t \in Threads |-> None]
    /\ loader_runs = [m \in ThreadModelTypes |-> 0]

\* line 39: a thread enters _get_or_load_model(model_type, *args)
ThreadCall(t) ==
    /\ main_pc = "threads"
    /\ th_pc[t] = "idle"
    /\ \E model_type \in ThreadModelTypes :
         th_type' = [th_type EXCEPT ![t] = model_type]
    /\ th_pc' = [th_pc EXCEPT ![t] = "check"]
    /\ UNCHANGED << th_loaded, th_model, loader_runs, assignVars, callVars,
                    slVars, envVars, instVars, runVars, mainVars >>

\* line 41: if cache_key not in self._model_cache
ThreadCheck(t) ==
    /\ th_pc[t] = "check"
    /\ th_pc' = [th_pc EXCEPT ![t] =
                    IF IsCached(model_cache, ThreadKey(t)) THEN "return" ELSE "load"]
    /\ UNCHANGED << th_type, th_loaded, th_model, loader_runs, assignVars,
                    callVars, slVars, envVars, instVars, runVars, mainVars >>

\* lines 43-55, right-hand sides: the loader of the model type runs and returns
\* a new model object, or raises
ThreadLoad(t) ==
    /\ th_pc[t] = "load"
    /\ loader_runs' = [loader_runs EXCEPT ![th_type[t]] = @ + 1]
    /\ \E load_ok \in BOOLEAN :
         IF load_ok
         THEN /\ th_loaded' = [th_loaded EXCEPT ![t] =
                     [model |-> Loaded(th_type[t], ThreadArgs(th_type[t]),
                                       transcriber_instance),
                      load |-> loader_runs'[th_type[t]]]]
              /\ th_pc' = [th_pc EXCEPT ![t] = "store"]
         ELSE /\ th_loaded' = th_loaded
              /\ th_pc' = [th_pc EXCEPT ![t] = "raised"]
    /\ UNCHANGED << th_type, th_model, assignVars, callVars, slVars, envVars,
                    instVars, runVars, mainVars >>

\* lines 44, 48, 53, left-hand sides: the loaded model is stored under the key
ThreadStore(t) ==
    /\ th_pc[t] = "store"
    /\ model_cache' = CachePut(model_cache, ThreadKey(t), th_loaded[t])
    /\ th_pc' = [th_pc EXCEPT ![t] = "return"]
    /\ UNCHANGED << th_type, th_loaded, th_model, loader_runs, assignVars,
                    callVars, transcriber_instance, envVars, instVars, runVars,
                    mainVars >>

\* line 59: return self._model_cache[cache_key]
ThreadReturn(t) ==
    /\ th_pc[t] = "return"
    /\ th_model' = [th_model EXCEPT ![t] = CacheGet(model_cache, ThreadKey(t))]
    /\ th_pc' = [th_pc EXCEPT ![t] = "done"]
    /\ UNCHANGED << th_type, th_loaded, loader_runs, assignVars, callVars,
                    slVars, envVars, instVars, runVars, mainVars >>

(***************************************************************************)
(* Specification                                                           *)
(***************************************************************************)
\* the resolver is not under test
AssignIdle ==
    /\ segment_start = 0
    /\ segment_end = 0
    /\ speaker_segments = << >>
    /\ assigned_speaker = None

\* a process in which serverless_transcriber.py has just been imported
\* (lines 20 and 119)
ServerlessImported ==
    /\ model_cache = {}
    /\ transcriber_instance = None

\* no library function is being called on its own
CallIdle ==
    /\ call_args = << >>
    /\ call_result = << >>

\* the state after construction of the transcriber, before main() dispatches
Constructed ==
    /\ model = None
    /\ model_a = None
    /\ last_alignment_language = None
    /\ diarize_model = None
    /\ pc = "idle"
    /\ audio_path = NoFile
    /\ result = << >>
    /\ language_code = None
    /\ formatted_result = << >>
    /\ warnings = {}
    /\ calls = NoCalls
    /\ asr_segments = << >>
    /\ error = None
    /\ audio_files = << >>
    /\ idx = 1
    /\ successful = 0
    /\ failed = 0
    /\ attempted = << >>
    /\ errored = {}
    /\ written = {}
    /\ output_files = {}

\* a command-line process (main.py) with its arguments
InitMain ==
    /\ main_pc = "start"
    /\ output_format \in {"json", "all"}
    /\ min_speakers = None
    /\ max_speakers = None
    /\ language \in Langs \cup {None}

\* a serverless process (serverless_transcriber.py): no command line
InitServerless ==
    /\ main_pc = "serverless"
    /\ output_format = "all"
    /\ min_speakers = None
    /\ max_speakers = None
    /\ language = None

Init ==
    /\ hf_token \in BOOLEAN
    /\ InitMain \/ InitServerless
    /\ Constructed
    /\ ServerlessImported
    /\ AssignIdle
    /\ ThreadsIdle
    /\ CallIdle

Next ==
    \/ StartAudio
    \/ StartBatch
    \/ BatchIter
    \/ Validate
    \/ Transcribe
    \/ Align
    \/ Diarize
    \/ Assemble
    \/ SaveOutputs
    \/ HandleError
    \/ BatchDone
    \/ GetTranscriber
    \/ FastBegin
    \/ FastTranscribe
    \/ FastAlign
    \/ FastDiarize
    \/ FastAssemble
    \/ FastEnd

Spec == Init /\ [][Next]_vars

(***************************************************************************)
(* The speaker resolver on its own: one call of _assign_speaker_to_segment *)
(* for every segment range and every list of turns within the bounds       *)
(***************************************************************************)
\* the turn lists handed to the resolver: turns may overlap each other and
\* share a speaker
TurnLists ==
    SeqsUpTo({ t \in Turns(MaxTime) : t.start <= t.end }, MaxTurns)

InitAssign ==
    /\ hf_token = FALSE
    /\ output_format = "all"
    /\ min_speakers = None
    /\ max_speakers = None
    /\ language = None
    /\ main_pc = "resolver"
    /\ Constructed
    /\ ServerlessImported
    /\ segment_start \in 0..MaxTime
    /\ segment_end \in segment_start..MaxTime
    /\ speaker_segments \in TurnLists
    /\ assigned_speaker = None
    /\ ThreadsIdle
    /\ CallIdle

\* lines 222-240
AssignCall ==
    /\ assigned_speaker = None
    /\ main_pc = "resolver"
    /\ assigned_speaker' =
         assign_speaker_to_segment(segment_start, segment_end, speaker_segments)
    /\ UNCHANGED << segment_start, segment_end, speaker_segments, slVars,
                    envVars, instVars, runVars, mainVars, threadVars, callVars >>

NextAssign == AssignCall

SpecAssign == InitAssign /\ [][NextAssign]_vars

(***************************************************************************)
(* One file processed by main.py with speaker-count hints on the command   *)
(* line                                                                    *)
(***************************************************************************)
InitHints ==
    /\ hf_token \in BOOLEAN
    /\ output_format = "json"
    /\ min_speakers \in SpeakerCounts \cup {None}
    /\ max_speakers \in SpeakerCounts \cup {None}
    /\ language = None
    /\ main_pc = "start"
    /\ Constructed
    /\ ServerlessImported
    /\ AssignIdle
    /\ ThreadsIdle
    /\ CallIdle

NextHints ==
    \/ StartAudio
    \/ Validate
    \/ Transcribe
    \/ Align
    \/ Diarize
    \/ Assemble
    \/ SaveOutputs
    \/ HandleError

SpecHints == InitHints /\ [][NextHints]_vars

(***************************************************************************)
(* Several threads of one serverless process inside _get_or_load_model     *)
(***************************************************************************)
InitCache ==
    /\ hf_token = TRUE
    /\ output_format = "all"
    /\ min_speakers = None
    /\ max_speakers = None
    /\ language = None
    /\ main_pc = "threads"
    /\ Constructed
    /\ model_cache = {}
    /\ transcriber_instance \in ModelSizes
    /\ AssignIdle
    /\ ThreadsIdle
    /\ CallIdle

NextCache ==
    \E t \in Threads :
        \/ ThreadCall(t)
        \/ ThreadCheck(t)
        \/ ThreadLoad(t)
        \/ ThreadStore(t)
        \/ ThreadReturn(t)

SpecCache == InitCache /\ [][NextCache]_vars

(***************************************************************************)
(* format_output on its own: one call for every result and format name     *)
(* within the bounds                                                       *)
(***************************************************************************)
InitFormat ==
    /\ hf_token = FALSE
    /\ output_format = "all"
    /\ min_speakers = None
    /\ max_speakers = None
    /\ language = None
    /\ main_pc = "format_output"
    /\ Constructed
    /\ ServerlessImported
    /\ AssignIdle
    /\ ThreadsIdle
    /\ \E segments \in SeqsUpTo(FmtSegments, MaxFmtSegs), name \in FormatNamePool :
         call_args = << [transcription_result |-> [segments |-> segments],
                         format_type |-> name] >>
    /\ call_result = << >>

\* lines 250-270
FormatOutputCall ==
    /\ main_pc = "format_output"
    /\ call_result = << >>
    /\ call_result' = << format_output(call_args[1].transcription_result,
                                       call_args[1].format_type) >>
    /\ UNCHANGED << call_args, assignVars, threadVars, slVars, envVars, instVars,
                    runVars, mainVars >>

NextFormat == FormatOutputCall

SpecFormat == InitFormat /\ [][NextFormat]_vars

(***************************************************************************)
(* format_timestamp on its own: one call for every time within the bounds  *)
(***************************************************************************)
InitTimestamp ==
    /\ hf_token = FALSE
    /\ output_format = "all"
    /\ min_speakers = None
    /\ max_speakers = None
    /\ language = None
    /\ main_pc = "format_timestamp"
    /\ Constructed
    /\ ServerlessImported
    /\ AssignIdle
    /\ ThreadsIdle
    /\ \E ms \in TimestampInputs : call_args = << ms >>
    /\ call_result = << >>

\* lines 242-248
FormatTimestampCall ==
    /\ main_pc = "format_timestamp"
    /\ call_result = << >>
    /\ \E milliseconds \in FractionMillis(call_args[1]) :
         call_result' = << format_timestamp(call_args[1], milliseconds) >>
    /\ UNCHANGED << call_args, assignVars, threadVars, slVars, envVars, instVars,
                    runVars, mainVars >>

NextTimestamp == FormatTimestampCall

SpecTimestamp == InitTimestamp /\ [][NextTimestamp]_vars

(***************************************************************************)
(* validate_arguments on its own: one call for every argument set          *)
(***************************************************************************)
InitArguments ==
    /\ hf_token = FALSE
    /\ output_format = "all"
    /\ min_speakers = None
    /\ max_speakers = None
    /\ language = None
    /\ main_pc = "validate_arguments"
    /\ Constructed
    /\ ServerlessImported
    /\ AssignIdle
    /\ ThreadsIdle
    /\ \E args \in ArgumentSets : call_args = << args >>
    /\ call_result = << >>

\* lines 134-160
ValidateArgumentsCall ==
    /\ main_pc = "validate_arguments"
    /\ call_result = << >>
    /\ call_result' = << validate_arguments(call_args[1]) >>
    /\ UNCHANGED << call_args, assignVars, threadVars, slVars, envVars, instVars,
                    runVars, mainVars >>

NextArguments == ValidateArgumentsCall

SpecArguments == InitArguments /\ [][NextArguments]_vars

(***************************************************************************)
(* The speaker resolver called twice: on a list of turns and on the same   *)
(* turns in another order                                                  *)
(***************************************************************************)
\* the lists that hold the turns of list s in some order
Orderings(s) ==
    { [i \in 1..Len(s) |-> s[p[i]]] : p \in Permutations(1..Len(s)) }

InitOrder ==
    /\ hf_token = FALSE
    /\ output_format = "all"
    /\ min_speakers = None
    /\ max_speakers = None
    /\ language = None
    /\ main_pc = "resolver_twice"
    /\ Constructed
    /\ ServerlessImported
    /\ segment_start \in 0..MaxTime
    /\ segment_end \in segment_start..MaxTime
    /\ speaker_segments \in TurnLists
    /\ assigned_speaker = None
    /\ ThreadsIdle
    /\ CallIdle

\* lines 222-240, for speaker_segments and for a reordering of it
AssignReorderedCall ==
    /\ assigned_speaker = None
    /\ main_pc = "resolver_twice"
    /\ assigned_speaker' =
         assign_speaker_to_segment(segment_start, segment_end, speaker_segments)
    /\ \E reordered \in Orderings(speaker_segments) :
         /\ call_args' = << reordered >>
         /\ call_result' =
              << assign_speaker_to_segment(segment_start, segment_end, reordered) >>
    /\ UNCHANGED << segment_start, segment_end, speaker_segments, slVars,
                    envVars, instVars, runVars, mainVars, threadVars >>

NextOrder == AssignReorderedCall

SpecOrder == InitOrder /\ [][NextOrder]_vars

(***************************************************************************)
(* Properties of the speaker resolver (checked under SpecAssign)           *)
(***************************************************************************)
\* the overlap of turn i with the segment of the call, as the specification states it
TurnOverlap(i) ==
    LET lo == IF segment_start >= speaker_segments[i].start
              THEN segment_start ELSE speaker_segments[i].start
        hi == IF segment_end <= speaker_segments[i].end
              THEN segment_end ELSE speaker_segments[i].end
    IN  IF hi - lo > 0 THEN hi - lo ELSE 0

TurnIdx == 1..Len(speaker_segments)

SomePositiveOverlap == \E i \in TurnIdx : TurnOverlap(i) > 0

\* turn i attains the maximum overlap and no earlier turn does
FirstOfMaximum(i) ==
    /\ \A j \in TurnIdx : TurnOverlap(j) <= TurnOverlap(i)
    /\ \A j \in 1..(i - 1) : TurnOverlap(j) < TurnOverlap(i)

Called == assigned_speaker # None

\* C5: when some turn overlaps the segment, the label returned is that of the
\* first turn, in input order, whose overlap equals the maximum overlap; a later
\* turn of equal overlap never displaces it.
C5_FirstMaximumWins ==
    (Called /\ SomePositiveOverlap) =>
        \E i \in TurnIdx :
            /\ FirstOfMaximum(i)
            /\ assigned_speaker = speaker_segments[i].speaker

\* C5 witness: two turns of different speakers tie on a positive overlap and the
\* label of the first is returned.
C5_Witness ==
    /\ Called
    /\ Len(speaker_segments) = 2
    /\ TurnOverlap(1) > 0
    /\ TurnOverlap(1) = TurnOverlap(2)
    /\ speaker_segments[1].speaker # speaker_segments[2].speaker
    /\ assigned_speaker = speaker_segments[1].speaker

\* C6 as stated: the default label is returned exactly when no turn has strictly
\* positive overlap, and otherwise a label of the turn list is returned.
C6_DefaultExactlyWhenNoOverlap ==
    Called =>
        /\ (assigned_speaker = DEFAULT_SPEAKER) <=> ~SomePositiveOverlap
        /\ SomePositiveOverlap =>
              \E i \in TurnIdx : assigned_speaker = speaker_segments[i].speaker

\* C6 amended: the default label is returned whenever no turn has strictly
\* positive overlap (empty list, turns outside the segment or touching it at an
\* endpoint, zero-duration segment); otherwise the label of a turn with positive
\* overlap is returned, which is the default label when that turn carries it.
C6_DefaultWhenNoOverlap ==
    Called =>
        /\ ~SomePositiveOverlap => assigned_speaker = DEFAULT_SPEAKER
        /\ SomePositiveOverlap =>
              \E i \in TurnIdx :
                  /\ TurnOverlap(i) > 0
                  /\ assigned_speaker = speaker_segments[i].speaker

\* C6 witness: a zero-duration segment strictly inside a turn of another speaker
\* gets the default label.
C6_Witness ==
    /\ Called
    /\ segment_start = segment_end
    /\ Len(speaker_segments) = 1
    /\ speaker_segments[1].start < segment_start
    /\ segment_end < speaker_segments[1].end
    /\ speaker_segments[1].speaker # DEFAULT_SPEAKER
    /\ assigned_speaker = DEFAULT_SPEAKER

(***************************************************************************)
(* Properties of the pipeline and of the driver (checked under Spec)       *)
(***************************************************************************)
\* a run of WhisperXTranscriber.transcribe_audio, started by main.py
Cli == main_pc \in {"audio", "batch"}

Returned == pc = "returned" /\ Len(formatted_result) = 1

\* same segments, in the same order, with the same start, end and text
SameSegments(a, b) ==
    /\ Len(a) = Len(b)
    /\ \A i \in 1..Len(a) :
         /\ a[i].start = b[i].start
         /\ a[i].end = b[i].end
         /\ a[i].text = b[i].text

AllDefault(segments) ==
    \A i \in 1..Len(segments) : segments[i].speaker = DEFAULT_SPEAKER

AlignmentWarnings ==
    {"Failed to load alignment model", "Skipping alignment", "Alignment failed"}

\* C1: when the alignment stage of transcribe_audio fails (the model cannot be
\* loaded, or the align call raises) the run does not fail: a warning is logged,
\* the run goes on to diarization, and the segments it carries and returns are
\* those of the transcription, in order, with their start, end and text.
C1_AlignmentFailureKeepsSegments ==
    (Cli /\ calls.align_outcome \in {"skipped", "failed"}) =>
        /\ pc \in {"diarize", "assemble", "returned"}
        /\ warnings \cap AlignmentWarnings # {}
        /\ SameSegments(result, asr_segments)
        /\ pc = "diarize" => result = asr_segments
        /\ pc \in {"assemble", "returned"} => calls.diar_outcome # None
        /\ pc = "returned" =>
              /\ Len(formatted_result) = 1
              /\ SameSegments(formatted_result[1].segments, asr_segments)

\* C1 witness: a run returned after its align call raised, with two segments.
C1_Witness ==
    /\ Cli
    /\ Returned
    /\ calls.align_outcome = "failed"
    /\ Len(asr_segments) = 2
    /\ SameSegments(formatted_result[1].segments, asr_segments)

\* C2: when the diarization stage fails (no credential, model load failure,
\* inference error, error part-way through the speaker assignment) the run
\* still returns a result, every segment of which carries "SPEAKER_00"; with at
\* least one segment and no credential speakers_detected is 1.
C2_DiarizationFailureLabelsDefault ==
    (calls.diar_outcome \notin {None, "ok"}) =>
        /\ pc \in {"assemble", "fast_assemble", "returned"}
        /\ AllDefault(result)
        /\ pc = "returned" =>
              /\ Len(formatted_result) = 1
              /\ AllDefault(formatted_result[1].segments)
              /\ (calls.diar_outcome = "no_token"
                    /\ Len(formatted_result[1].segments) >= 1) =>
                    formatted_result[1].metadata.speakers_detected = 1

\* C2 witness: a run of two segments returned after the speaker assignment
\* raised at the second segment, the first being labelled already.
C2_Witness ==
    /\ Cli
    /\ Returned
    /\ calls.diar_outcome = "assign_fail"
    /\ Len(formatted_result[1].segments) = 2
    /\ AllDefault(formatted_result[1].segments)

TranscriptionErrors ==
    {"RuntimeError: Failed to load Whisper model", "RuntimeError: Transcription failed"}

OutputFormats == {"txt", "json", "srt", "vtt"}

\* C3: when the transcription stage fails (Whisper model load, audio load, ASR
\* call) the run ends raised with no result, neither the alignment nor the
\* diarization stage is invoked, and no output file is written for the file.
C3_TranscriptionFailureIsFatal ==
    /\ (Cli /\ calls.asr_outcome \notin {None, "ok"}) =>
          /\ pc = "raised"
          /\ error \in TranscriptionErrors
          /\ formatted_result = << >>
          /\ calls.load_align = 0 /\ calls.align = 0
          /\ calls.load_diar = 0 /\ calls.diar = 0
          /\ calls.align_outcome = None /\ calls.diar_outcome = None
          /\ \A f \in OutputFormats : << audio_path.path, f >> \notin written
    /\ \A e \in errored :
          e[2] \in TranscriptionErrors =>
              \A f \in OutputFormats : << e[1], f >> \notin written

\* C3 witness: process_single_file has handled a file whose ASR call raised.
C3_Witness ==
    /\ main_pc = "batch"
    /\ pc = "idle"
    /\ << 1, "RuntimeError: Transcription failed" >> \in errored
    /\ \A f \in OutputFormats : << 1, f >> \notin written

\* two letters that differ in case at most
SameLetter(a, b) ==
    \/ a = b
    \/ {a, b} \in {{"m", "M"}, {"p", "P"}, {"w", "W"}, {"a", "A"}, {"v", "V"},
                   {"j", "J"}, {"s", "S"}, {"o", "O"}, {"n", "N"}, {"t", "T"},
                   {"x", "X"}, {"r", "R"}}

\* the extension is, case aside, one of .mp3 .wav .m4a .flac .ogg .mp4
SupportedIgnoringCase(ext) ==
    \E f \in SUPPORTED_FORMATS :
        /\ Len(f) = Len(ext)
        /\ \A i \in 1..Len(f) : SameLetter(ext[i], f[i])

ValidationErrors == {"FileNotFoundError", "ValueError"}

\* C4: a path that does not exist, or whose extension is case-insensitively
\* none of the supported ones, makes transcribe_audio raise in validation,
\* before any model is loaded or any capability invoked, with no result; for an
\* existing path with a supported extension validation raises nothing.
C4_ValidationGuardsThePipeline ==
    (Cli /\ pc \notin {"idle", "validate"}) =>
        IF audio_path.exists /\ SupportedIgnoringCase(audio_path.ext)
        THEN error \notin ValidationErrors
        ELSE /\ pc = "raised"
             /\ error \in ValidationErrors
             /\ calls = NoCalls
             /\ formatted_result = << >>

\* C4 witness: an existing .txt file was rejected with nothing invoked.
C4_Witness ==
    /\ Cli
    /\ pc = "raised"
    /\ audio_path.exists
    /\ audio_path.ext = << ".", "t", "x", "t" >>
    /\ error = "ValueError"
    /\ calls = NoCalls

\* the speaker labels the segments carry
LabelsCarried(segments) ==
    { segments[i].speaker : i \in 1..Len(segments) } \ {None}

\* C7: in every returned result metadata.speakers_detected is the number of
\* distinct speaker labels carried by the segments of that result.
C7_SpeakersDetectedCountsLabels ==
    Returned =>
        formatted_result[1].metadata.speakers_detected =
            Cardinality(LabelsCarried(formatted_result[1].segments))

IsSortedPaths(s) == \A i, j \in 1..Len(s) : i < j => s[i] < s[j]

\* C8: process_batch hands every audio file found to process_single_file exactly
\* once, in sorted path order, whatever happened to the files before it.
C8_BatchAttemptsEveryFileInOrder ==
    (main_pc \in {"batch", "batch_done"}) =>
        /\ IsSortedPaths(audio_files)
        /\ Len(attempted) <= Len(audio_files)
        /\ attempted = SubSeq(audio_files, 1, Len(attempted))
        /\ pc = "idle" => Len(attempted) = idx - 1
        /\ main_pc = "batch_done" => attempted = audio_files

\* C8 witness: a batch of two files is over, the first of which hit an error.
C8_Witness ==
    /\ main_pc = "batch_done"
    /\ Len(audio_files) = 2
    /\ attempted = audio_files
    /\ \E e \in errored : e[1] = audio_files[1]

ErroredFiles == { e[1] : e \in errored }

\* C9: when process_batch finishes, 'Successful' is the number of files processed
\* without error, 'Failed' the number of files that hit an error, and the two
\* add up to the number of audio files found.
C9_TallyIsCorrect ==
    (main_pc = "batch_done") =>
        /\ failed = Cardinality(ErroredFiles)
        /\ successful = Len(audio_files) - Cardinality(ErroredFiles)
        /\ successful + failed = Len(audio_files)

\* the language the run has to use
ExpectedLanguage == IF language # None THEN language ELSE calls.detected

\* C10: with a language override the language of the result metadata and the
\* language the alignment model is loaded for are the override, whatever the ASR
\* engine detected; without one both are the detected language; the ASR call is
\* given no language hint.
C10_OverrideDecidesLanguage ==
    (Cli /\ calls.asr_outcome = "ok") =>
        /\ calls.asr_hint = None
        /\ language_code = ExpectedLanguage
        /\ calls.align_outcome # None =>
              /\ calls.align_loaded_for \in {None, ExpectedLanguage}
              /\ model_a \in {None, ExpectedLanguage}
        /\ pc = "returned" =>
              /\ Len(formatted_result) = 1
              /\ formatted_result[1].metadata.language = ExpectedLanguage

\* C10 witness: the override is "fr", the ASR engine detected "en", the
\* alignment model was loaded for "fr" and the metadata says "fr".
C10_Witness ==
    /\ Cli
    /\ Returned
    /\ language = "fr"
    /\ calls.detected = "en"
    /\ calls.load_align = 1
    /\ calls.align_loaded_for = "fr"
    /\ formatted_result[1].metadata.language = "fr"

(***************************************************************************)
(* Properties of the model cache under concurrent callers (SpecCache)      *)
(***************************************************************************)
\* C11: when several threads call _get_or_load_model for the same key that is
\* not cached yet, the loader of that key runs at most once and all the callers
\* are returned the same model.
C11_AtMostOneLoadPerKey ==
    /\ \A m \in ThreadModelTypes : loader_runs[m] <= 1
    /\ \A t, u \in Threads :
         (th_pc[t] = "done" /\ th_pc[u] = "done" /\ th_type[t] = th_type[u]) =>
             th_model[t] = th_model[u]

(***************************************************************************)
(* Properties of the model cache across invocations (checked under Spec)   *)
(***************************************************************************)
Serverless == main_pc = "serverless"

\* C12: after any sequence of get_transcriber and transcribe_audio_fast calls,
\* the Whisper model handed to a transcriber of model size S was loaded with
\* size S, the alignment model handed out for language L was loaded for L, and
\* get_transcriber(S) returns an instance of model size S.
C12_CacheKeyedByConfiguration ==
    /\ (Serverless /\ calls.asr = 1) => calls.model_used = transcriber_instance
    /\ (Serverless /\ calls.align = 1) => calls.align_loaded_for = language_code
    /\ \A instance \in ModelSizes \cup {None}, size \in ModelSizes :
         get_transcriber(instance, size) = size

(***************************************************************************)
(* Properties of the speaker-count hints (checked under SpecHints)         *)
(***************************************************************************)
\* C13: whenever the diarization engine runs for a file it is called with the
\* min_speakers and max_speakers hints given on the command line.
C13_HintsReachDiarization ==
    (Cli /\ calls.diar = 1) =>
        calls.diar_hints = << min_speakers, max_speakers >>

(***************************************************************************)
(* Properties of the output directory (checked under Spec)                 *)
(***************************************************************************)
\* main() is over and every file was processed without error
AllSucceeded ==
    /\ main_pc \in {"audio_done", "batch_done"}
    /\ errored = {}

\* C14: after a run in which N files were each processed successfully with F
\* requested formats the output directory holds N x F files, one per format
\* and input file, named <audio-stem>.<format> and holding the rendering of
\* that input file's result.
C14_OneOutputPerFormatAndFile ==
    AllSucceeded =>
        LET formats == Formats(output_format)
        IN  /\ Cardinality(output_files) = Len(attempted) * Len(formats)
            /\ \A i \in 1..Len(attempted), j \in 1..Len(formats) :
                 [name |-> << PathStem(attempted[i]), formats[j] >>,
                  content |-> << [of |-> attempted[i], format |-> formats[j]] >>]
                     \in output_files

(***************************************************************************)
(* Properties of format_output (checked under SpecFormat)                  *)
(***************************************************************************)
FormatCalled == main_pc = "format_output" /\ call_result # << >>

RequestedFormat == call_args[1].format_type

FormatOutcome == call_result[1]

\* str has sub as a run of consecutive tokens
Contains(str, sub) ==
    \E i \in 1..(Len(str) - Len(sub) + 1) : SubSeq(str, i, i + Len(sub) - 1) = sub

\* the name is, case aside, one of json, txt, srt, vtt
FormatNameIgnoringCase(name) ==
    \E k \in 1..Len(FormatterNames) :
        /\ Len(FormatterNames[k]) = Len(name)
        /\ \A i \in 1..Len(name) : SameLetter(name[i], FormatterNames[k][i])

\* C15: format_output with a format name that is, case aside, none of json,
\* txt, srt, vtt raises an error whose message names the requested value and
\* lists the four supported names, and returns nothing; with one of the four
\* names in any letter case it returns a string and raises nothing.
C15_UnsupportedFormatIsRejected ==
    FormatCalled =>
        IF FormatNameIgnoringCase(RequestedFormat)
        THEN FormatOutcome.exc = None
        ELSE /\ FormatOutcome.exc = "ValueError"
             /\ FormatOutcome.value = << >>
             /\ Contains(FormatOutcome.message,
                         << "Unsupported format: " >> \o RequestedFormat)
             /\ \A k \in 1..Len(FormatterNames) :
                  Contains(FormatOutcome.message, FormatterNames[k])

\* C15 witness: "xml" was rejected with a ValueError naming it.
C15_Witness ==
    /\ FormatCalled
    /\ RequestedFormat = << "x", "m", "l" >>
    /\ FormatOutcome.exc = "ValueError"
    /\ Contains(FormatOutcome.message, << "x", "m", "l" >>)

\* str.split("\n")
RECURSIVE SplitLines(_)
SplitLines(str) ==
    IF \A i \in 1..Len(str) : str[i] # "\n" THEN << str >>
    ELSE LET i == CHOOSE k \in 1..Len(str) :
                      str[k] = "\n" /\ \A j \in 1..(k - 1) : str[j] # "\n"
         IN  << SubSeq(str, 1, i - 1) >> \o SplitLines(SubSeq(str, i + 1, Len(str)))

DigitValue(c) == CHOOSE d \in 0..9 : DigitChars[d + 1] = c

IsDigit(c) == \E d \in 0..9 : DigitChars[d + 1] = c

\* the number a string of digits denotes
RECURSIVE NumberOf(_)
NumberOf(digits) ==
    IF digits = << >> THEN 0
    ELSE 10 * NumberOf(SubSeq(digits, 1, Len(digits) - 1))
             + DigitValue(digits[Len(digits)])

\* ts reads HH:MM:SS<sep>mmm and denotes `sec` whole seconds
ReadsAs(ts, sep, sec) ==
    /\ Len(ts) = 12
    /\ \A i \in {1, 2, 4, 5, 7, 8, 10, 11, 12} : IsDigit(ts[i])
    /\ ts[3] = ":" /\ ts[6] = ":" /\ ts[9] = sep
    /\ NumberOf(SubSeq(ts, 1, 2)) * 3600 + NumberOf(SubSeq(ts, 4, 5)) * 60
           + NumberOf(SubSeq(ts, 7, 8)) = sec
    /\ NumberOf(SubSeq(ts, 10, 12)) = 0

\* line reads "<start> --> <end>" with the times of seg and the separator sep
TimeLineOf(line, sep, seg) ==
    /\ Len(line) = 25
    /\ ReadsAs(SubSeq(line, 1, 12), sep, seg.start)
    /\ line[13] = " --> "
    /\ ReadsAs(SubSeq(line, 14, 25), sep, seg.end)

\* line reads "<speaker>: <text>" with the speaker and the trimmed text of seg
SpeakerLineOf(line, seg) ==
    /\ Len(line) = 4
    /\ line[1] = (IF seg.speaker = None THEN "SPEAKER_00" ELSE seg.speaker)
    /\ line[2] = ":" /\ line[3] = " "
    /\ line[4] = "hi"

FormatSegments == call_args[1].transcription_result.segments

FormatReturned(name) ==
    /\ FormatCalled
    /\ Lower(RequestedFormat) = name
    /\ FormatOutcome.exc = None

\* C16: format_output(result, "srt") emits the N segments in input order as N
\* blocks numbered 1..N whatever their speakers and times, both timestamps with
\* a comma before the milliseconds; format_output(result, "vtt") emits the same
\* segments in the same order with a dot, after a first line "WEBVTT".
C16_SrtNumbersBlocksInInputOrder ==
    /\ FormatReturned(<< "s", "r", "t" >>) =>
          LET lines == SplitLines(FormatOutcome.value)
              n == Len(FormatSegments)
          IN  IF n = 0 THEN FormatOutcome.value = << >>
              ELSE /\ Len(lines) = 4 * n
                   /\ \A i \in 1..n :
                        /\ lines[4 * i - 3] # << >>
                        /\ \A k \in 1..Len(lines[4 * i - 3]) :
                             IsDigit(lines[4 * i - 3][k])
                        /\ NumberOf(lines[4 * i - 3]) = i
                        /\ TimeLineOf(lines[4 * i - 2], ",", FormatSegments[i])
                        /\ SpeakerLineOf(lines[4 * i - 1], FormatSegments[i])
                        /\ lines[4 * i] = << >>
    /\ FormatReturned(<< "v", "t", "t" >>) =>
          LET lines == SplitLines(FormatOutcome.value)
              n == Len(FormatSegments)
          IN  /\ Len(lines) = 2 + 3 * n
              /\ lines[1] = << "WEBVTT" >>
              /\ lines[2] = << >>
              /\ \A i \in 1..n :
                   /\ TimeLineOf(lines[3 * i], ".", FormatSegments[i])
                   /\ SpeakerLineOf(lines[3 * i + 1], FormatSegments[i])
                   /\ lines[3 * i + 2] = << >>

\* C16 witness: two segments, the later one first and of another speaker, were
\* rendered as SRT blocks 1 and 2 in that order.
C16_Witness ==
    /\ FormatReturned(<< "s", "r", "t" >>)
    /\ Len(FormatSegments) = 2
    /\ FormatSegments[1].start > FormatSegments[2].start
    /\ FormatSegments[1].speaker # FormatSegments[2].speaker
    /\ LET lines == SplitLines(FormatOutcome.value)
       IN  /\ lines[1] = << "1" >>
           /\ lines[5] = << "2" >>
           /\ TimeLineOf(lines[2], ",", FormatSegments[1])

(***************************************************************************)
(* Properties of format_timestamp (checked under SpecTimestamp)            *)
(***************************************************************************)
TimestampCalled == main_pc = "format_timestamp" /\ call_result # << >>

\* ts is of the form \d{2}:\d{2}:\d{2}\.\d{3}
FixedWidth(ts) ==
    /\ Len(ts) = 12
    /\ \A i \in {1, 2, 4, 5, 7, 8, 10, 11, 12} : IsDigit(ts[i])
    /\ ts[3] = ":" /\ ts[6] = ":" /\ ts[9] = "."

\* C17: for every time t >= 0, taken as a whole number of milliseconds and
\* reaching 100 hours and more, format_timestamp(t) is of the fixed-width form
\* HH:MM:SS.mmm, with two-digit minutes and seconds below 60.
C17_TimestampIsFixedWidth ==
    TimestampCalled =>
        /\ FixedWidth(call_result[1])
        /\ NumberOf(SubSeq(call_result[1], 4, 5)) < 60
        /\ NumberOf(SubSeq(call_result[1], 7, 8)) < 60

(***************************************************************************)
(* Properties of validate_arguments (checked under SpecArguments)          *)
(***************************************************************************)
ArgumentsChecked == main_pc = "validate_arguments" /\ call_result # << >>

\* an input is named when its argument is a non-empty string
Named(x) == x # None /\ x # ""

\* C18: validate_arguments raises ValueError for an argument set that names
\* neither --audio nor --batch and for one that names both, having examined no
\* other argument; it accepts an argument set exactly if one input is named,
\* that input exists, and model, output format and device (when given) are
\* supported.
C18_ExactlyOneInput ==
    ArgumentsChecked =>
        LET args == call_args[1]
            verdict == call_result[1]
            neither == ~Named(args.audio) /\ ~Named(args.batch)
            both == Named(args.audio) /\ Named(args.batch)
        IN  /\ (neither \/ both) =>
                  /\ verdict.exc = "ValueError"
                  /\ verdict.examined \subseteq {"audio", "batch"}
            /\ (verdict.exc = None) <=>
                  /\ ~neither /\ ~both
                  /\ Named(args.audio) => args.audio_exists
                  /\ Named(args.batch) => args.batch_isdir
                  /\ args.model \in
                        {"tiny", "base", "small", "medium", "large-v2", "large-v3"}
                  /\ args.output_format \in {"txt", "json", "srt", "vtt", "all"}
                  /\ args.device = None \/ args.device \in {"cpu", "cuda"}

\* C18 witness: neither input is named and the model is unsupported too; the
\* call raised the ValueError about the inputs.
C18_Witness ==
    /\ ArgumentsChecked
    /\ call_args[1].audio = None
    /\ call_args[1].batch = None
    /\ call_args[1].model = "huge"
    /\ call_result[1].exc = "ValueError"
    /\ call_result[1].message = "Either --audio or --batch must be specified"

(***************************************************************************)
(* Properties of the order of the stages (checked under Spec)              *)
(***************************************************************************)
\* the steps a run of transcribe_audio may take
StageEdges ==
    { << "idle", "validate" >>, << "validate", "transcribe" >>,
      << "validate", "raised" >>, << "transcribe", "align" >>,
      << "transcribe", "raised" >>, << "align", "diarize" >>,
      << "diarize", "assemble" >>, << "assemble", "returned" >>,
      << "returned", "idle" >>, << "raised", "idle" >> }

\* what has happened by the time the run is at each stage
StageOrder ==
    Cli =>
        /\ calls.asr <= 1 /\ calls.align <= 1 /\ calls.diar <= 1
        /\ calls.load_model <= 1 /\ calls.load_align <= 1 /\ calls.load_diar <= 1
        /\ pc \in {"validate", "transcribe"} =>
              calls = NoCalls /\ error = None /\ formatted_result = << >>
        /\ pc = "align" =>
              /\ calls.asr = 1 /\ calls.asr_outcome = "ok"
              /\ calls.align = 0 /\ calls.align_outcome = None
              /\ calls.diar = 0 /\ calls.diar_outcome = None
        /\ pc = "diarize" =>
              /\ calls.asr = 1 /\ calls.align_outcome # None
              /\ calls.diar = 0 /\ calls.diar_outcome = None
        /\ pc \in {"assemble", "returned"} =>
              /\ calls.asr = 1 /\ calls.align_outcome # None
              /\ calls.diar_outcome # None
        /\ (pc = "returned") <=> (formatted_result # << >>)
        /\ (pc = "raised") <=> (error # None)
        /\ pc = "raised" =>
              /\ calls.align = 0 /\ calls.align_outcome = None
              /\ calls.diar = 0 /\ calls.diar_outcome = None

\* C19: within one transcribe_audio run the stages execute in the order
\* Validate, Transcribe, Align, Diarize, Assemble with no retry: the ASR, align
\* and diarization capabilities are each invoked at most once, a stage starts
\* only when the one before it has ended, and the run ends either returned with
\* a result or raised with an error, never both.
C19_StagesRunOnceInOrder ==
    /\ []StageOrder
    /\ [][(main_pc' \in {"audio", "batch", "audio_done"} /\ pc' # pc) =>
              << pc, pc' >> \in StageEdges]_vars

\* C19 witness: a run returned with each of the three capabilities invoked once.
C19_Witness ==
    /\ Cli
    /\ Returned
    /\ calls.asr = 1 /\ calls.align = 1 /\ calls.diar = 1
    /\ calls.align_outcome = "aligned"
    /\ calls.diar_outcome = "ok"

(***************************************************************************)
(* Properties of the speaker-assignment step (checked under Spec)          *)
(***************************************************************************)
\* list b is list a with nothing but the speaker fields rewritten
OnlySpeakerChanged(a, b) ==
    /\ Len(b) = Len(a)
    /\ \A i \in 1..Len(a) : [b[i] EXCEPT !.speaker = a[i].speaker] = a[i]

\* C20: the speaker-assignment step of transcribe_audio, when it succeeds and
\* when it falls back, changes only the speaker field: the segments of the
\* returned result are, in number, order, start, end and text, the segments
\* that entered the diarization stage.
C20_AssignmentChangesOnlySpeaker ==
    /\ [][(Cli /\ pc = "diarize") => OnlySpeakerChanged(result, result')]_vars
    /\ [][(Cli /\ pc = "assemble") =>
              /\ Len(formatted_result') = 1
              /\ formatted_result'[1].segments = result]_vars

\* C20 witness: a run returned two segments after a diarization that succeeded
\* and gave one of them a turn's speaker.
C20_Witness ==
    /\ Cli
    /\ Returned
    /\ calls.diar_outcome = "ok"
    /\ Len(formatted_result[1].segments) = 2
    /\ \E i \in 1..2 : formatted_result[1].segments[i].speaker # DEFAULT_SPEAKER

(***************************************************************************)
(* Properties of the temporary file (checked under Spec)                   *)
(***************************************************************************)
\* C21: every temporary .wav file transcribe_audio creates for the diarization
\* stage has been deleted by the time transcribe_audio returns, whether the
\* diarization succeeds, the model call raises or writing the file raises.
C21_TempWavDeletedOnReturn ==
    (Cli /\ Returned) => calls.temp_wav # "exists"

(***************************************************************************)
(* Properties of the alignment model across runs (checked under Spec)      *)
(***************************************************************************)
\* the alignment stage of the current run has ended
AlignStageEnded == pc \in {"diarize", "assemble", "returned"}

\* C22: across the runs of one WhisperXTranscriber instance, alignment is
\* performed only with an alignment model loaded for the resolved language of
\* the current file: a model_a that is not None after _load_alignment_model(L)
\* was loaded for L, and a failed load leaves model_a None, so the model of an
\* earlier language is never used.
C22_AlignmentModelMatchesLanguage ==
    Cli =>
        /\ model_a # None => model_a = last_alignment_language
        /\ AlignStageEnded =>
              /\ model_a # None => model_a = language_code
              /\ calls.align = 1 =>
                    /\ model_a = language_code
                    /\ calls.align_loaded_for = language_code
              /\ "Failed to load alignment model" \in warnings =>
                    /\ model_a = None
                    /\ calls.align = 0

\* C22 witness: a later file of a batch was aligned with a model that was
\* loaded for its language in its own run.
C22_Witness ==
    /\ main_pc = "batch"
    /\ Len(attempted) >= 2
    /\ Returned
    /\ calls.load_align = 1
    /\ calls.align = 1
    /\ calls.align_outcome = "aligned"
    /\ model_a = language_code

(***************************************************************************)
(* Properties of process_single_file (checked under Spec)                  *)
(***************************************************************************)
\* the complete output file of `path` in format fmt
OutputFileOf(path, fmt) ==
    [name |-> << PathStem(path), fmt >>,
     content |-> << [of |-> path, format |-> fmt] >>]

\* C23: process_single_file never propagates an exception to its caller:
\* whatever fails (transcription, creating the output directory, formatting,
\* writing a file), it returns normally, and the files it leaves on disk are
\* exactly the output files of the formats written before the failure, none of
\* a later format.
C23_FailureLeavesTheWrittenFormats ==
    [][(Cli /\ pc \in {"returned", "raised"}) =>
          LET path == audio_path.path
              done == { fmt \in OutputFormats :
                          << path, fmt >> \in written' \ written }
          IN  /\ pc' = "idle"
              /\ failed' = failed
              /\ pc = "raised" => output_files' = output_files
              /\ \A fmt \in done : OutputFileOf(path, fmt) \in output_files'
              /\ \A f \in output_files' :
                    \/ f \in output_files
                    \/ \E fmt \in done : f = OutputFileOf(path, fmt)]_vars

(***************************************************************************)
(* Properties of the resolver under reordering (checked under SpecOrder)   *)
(***************************************************************************)
CalledTwice == main_pc = "resolver_twice" /\ call_result # << >>

\* the turns of greatest positive overlap with the segment
MaximalTurns ==
    { i \in TurnIdx :
        /\ TurnOverlap(i) > 0
        /\ \A j \in TurnIdx : TurnOverlap(j) <= TurnOverlap(i) }

\* those turns carry one label, or there is none
NoTieBetweenSpeakers ==
    \A i, j \in MaximalTurns :
        speaker_segments[i].speaker = speaker_segments[j].speaker

\* C24: the result of _assign_speaker_to_segment depends on the order of the
\* turns only through ties: when the turns attaining the maximum positive
\* overlap all carry one label, or no turn has positive overlap, two orderings
\* of the same turns yield the same label.
C24_OrderMattersOnlyThroughTies ==
    (CalledTwice /\ NoTieBetweenSpeakers) => call_result[1] = assigned_speaker

\* C24 witness: two turns of different speakers and different positive
\* overlaps, given in both orders, yield the label of the greater overlap.
C24_Witness ==
    /\ CalledTwice
    /\ Len(speaker_segments) = 2
    /\ call_args[1] # speaker_segments
    /\ speaker_segments[1].speaker # speaker_segments[2].speaker
    /\ TurnOverlap(1) > 0
    /\ TurnOverlap(2) > TurnOverlap(1)
    /\ call_result[1] = speaker_segments[2].speaker
    /\ assigned_speaker = speaker_segments[2].speaker

====
